---- MODULE Spec2Model ----
(***************************************************************************)
(* Pipeline heat-loss calculator (src/pipe_heat_loss_app.py).              *)
(*                                                                         *)
(* The program computes with IEEE 754 binary64 numbers (Python floats and  *)
(* numpy float64).  A number is the record [s, m, e]:                      *)
(*   s = 0             zero: e = 0 for +0.0 and e = -1 for -0.0            *)
(*   s = 1 or -1       the value s * m * 2^e, where the mantissa m is a    *)
(*                     natural number of at most 53 bits written as a      *)
(*                     little-endian sequence of limbs in base 2^14; a     *)
(*                     normal number has exactly 53 bits, a subnormal one  *)
(*                     fewer and e = -1074; m = <<>> is infinity           *)
(*   s = 2             not-a-number                                        *)
(* Sums, products and quotients are computed exactly and rounded to the    *)
(* nearest representable value, ties to even; a result of magnitude 2^1024 *)
(* or more is infinite.  exp and log are the C library's, or numpy's own   *)
(* kernels: they return a double next to the exact value, not always the   *)
(* nearest one, and which of the two depends on the build.  They are       *)
(* computed here in fixed point with FracBits bits after the point, and    *)
(* their result is the set of the doubles next below and next above.       *)
(*                                                                         *)
(* Intermediate results are handed on as operator parameters rather than   *)
(* named in LET, so that each is written, and evaluated, once; the limbs   *)
(* of a sum or product are each written as a formula of the operands, and  *)
(* a loop is split in halves (Repeat), which keeps evaluation shallow.     *)
(***************************************************************************)
EXTENDS Integers, Sequences, FiniteSets

\* ------------------------------------------------------------------------
\* Natural numbers as little-endian limb sequences (<<>> is 0).
\* ------------------------------------------------------------------------
LimbBits == 14
Base == 2 ^ LimbBits

Limb(a, i) == IF i >= 1 /\ i <= Len(a) THEN a[i] ELSE 0
MaxOf(x, y) == IF x >= y THEN x ELSE y
MinOf(x, y) == IF x <= y THEN x ELSE y

\* the index of the highest non-zero limb, 0 when there is none
TopLimb(a) ==
  CHOOSE i \in 0..Len(a) : (i = 0 \/ a[i] # 0) /\ \A k \in (i + 1)..Len(a) : a[k] = 0
\* a without its zero limbs at the high end
NatNorm(a) == SubSeq(a, 1, TopLimb(a))

\* the carry into limb i of a + b: the nearest limb below i whose sum is not
\* Base - 1 overflows
Carry(a, b, i) ==
  \E j \in 1..(i - 1) :
    /\ Limb(a, j) + Limb(b, j) >= Base
    /\ \A k \in (j + 1)..(i - 1) : Limb(a, k) + Limb(b, k) = Base - 1
NatAdd(a, b) ==
  NatNorm(<<>> \o [i \in 1..(MaxOf(Len(a), Len(b)) + 1) |->
            (Limb(a, i) + Limb(b, i) + (IF Carry(a, b, i) THEN 1 ELSE 0)) % Base])

\* the borrow from limb i of a - b
Borrow(a, b, i) ==
  \E j \in 1..(i - 1) :
    /\ a[j] < Limb(b, j)
    /\ \A k \in (j + 1)..(i - 1) : a[k] = Limb(b, k)
\* a - b for a >= b
NatSub(a, b) ==
  NatNorm(<<>> \o [i \in 1..Len(a) |->
            (a[i] - Limb(b, i) - (IF Borrow(a, b, i) THEN 1 ELSE 0) + Base) % Base])

\* -1, 0, 1 as a < b, a = b, a > b (both normalised)
NatCmp(a, b) ==
  IF Len(a) # Len(b) THEN (IF Len(a) < Len(b) THEN -1 ELSE 1)
  ELSE IF a = b THEN 0
  ELSE IF \E i \in 1..Len(a) : a[i] < b[i] /\ \A k \in (i + 1)..Len(a) : a[k] = b[k]
       THEN -1 ELSE 1

\* a * d for 0 <= d < Base: the low halves of the limb products plus their
\* high halves one limb up
NatMulSmall(a, d) ==
  IF d = 0 \/ a = <<>> THEN <<>>
  ELSE NatAdd(<<>> \o [i \in 1..Len(a) |-> (a[i] * d) % Base],
              <<0>> \o [i \in 1..Len(a) |-> (a[i] * d) \div Base])

\* a * Base^n
NatShift(a, n) == IF a = <<>> THEN <<>> ELSE [i \in 1..n |-> 0] \o a

Prod(a, b, k, i) == Limb(a, i) * Limb(b, k + 1 - i)
\* the sum of the limb products of weight Base^(k-1), a of at most 8 limbs
\* (eight products of limbs stay below 2^31)
Column(a, b, k) ==
  ((Prod(a, b, k, 1) + Prod(a, b, k, 2)) + (Prod(a, b, k, 3) + Prod(a, b, k, 4)))
  + ((Prod(a, b, k, 5) + Prod(a, b, k, 6)) + (Prod(a, b, k, 7) + Prod(a, b, k, 8)))
Columns(a, b) == <<>> \o [k \in 1..(Len(a) + Len(b)) |-> Column(a, b, k)]
\* the number whose limb k is the column sum c[k] < 2^31
Carried(c) ==
  NatAdd(NatAdd(<<>> \o [k \in 1..Len(c) |-> c[k] % Base],
                <<0>> \o [k \in 1..Len(c) |-> (c[k] \div Base) % Base]),
         <<0, 0>> \o [k \in 1..Len(c) |-> c[k] \div (Base * Base)])
\* a * b, one of them of at most 8 limbs
NatMul(a, b) ==
  IF a = <<>> \/ b = <<>> THEN <<>>
  ELSE IF Len(a) <= Len(b) THEN Carried(Columns(a, b))
  ELSE Carried(Columns(b, a))

RECURSIVE Repeat(_, _, _, _)
\* F(hi, ... F(lo + 1, F(lo, x))) for lo <= hi; the first half of the steps
\* is carried out before the second half starts
Repeat(F(_, _), lo, hi, x) ==
  IF lo = hi THEN F(lo, x)
  ELSE CHOOSE r \in {Repeat(F, (lo + hi) \div 2 + 1, hi, w) :
                     w \in {Repeat(F, lo, (lo + hi) \div 2, x)}} : TRUE

\* number of bits of a limb
BitsOf(n) == CHOOSE k \in 0..LimbBits : n < 2 ^ k /\ (k = 0 \/ n >= 2 ^ (k - 1))
\* number of bits of a
BitLen(a) == IF a = <<>> THEN 0 ELSE LimbBits * (Len(a) - 1) + BitsOf(a[Len(a)])

\* 2^k
Pow2(k) == NatShift(<<2 ^ (k % LimbBits)>>, k \div LimbBits)
\* a * 2^k
ShiftLeft(a, k) == NatShift(NatMulSmall(a, 2 ^ (k % LimbBits)), k \div LimbBits)
\* limb i of a \div 2^s above w whole limbs
ShiftedLimb(a, w, s, i) ==
  (a[i + w] \div (2 ^ s)) + (Limb(a, i + w + 1) % (2 ^ s)) * (2 ^ (LimbBits - s))
\* a \div 2^k
ShiftRight(a, k) ==
  IF k \div LimbBits >= Len(a) THEN <<>>
  ELSE NatNorm(<<>> \o [i \in 1..(Len(a) - k \div LimbBits) |->
                 ShiftedLimb(a, k \div LimbBits, k % LimbBits, i)])
\* a % 2^k
LowBits(a, k) ==
  IF k \div LimbBits >= Len(a) THEN a
  ELSE NatNorm(SubSeq(a, 1, k \div LimbBits)
               \o <<a[k \div LimbBits + 1] % (2 ^ (k % LimbBits))>>)

\* the limbs of a natural number below 2^31
NatOf(n) == NatNorm(<<n % Base, (n \div Base) % Base, n \div (Base * Base)>>)
\* the integer value of limbs (it must stay below 2^31)
NatVal(a) == Limb(a, 1) + Base * Limb(a, 2) + Base * Base * Limb(a, 3)

\* the quotient limb of t by b, where t < b * Base and the high limb of b
\* is Base / 2 or more: the estimate from the high limbs is at most 2 too
\* large
QuotFix(t, b, qh) ==
  IF NatCmp(NatMulSmall(b, qh), t) <= 0 THEN qh
  ELSE IF NatCmp(NatMulSmall(b, qh - 1), t) <= 0 THEN qh - 1
  ELSE qh - 2
QuotDigit(t, b) ==
  QuotFix(t, b, MinOf(Base - 1, (Limb(t, Len(b) + 1) * Base + Limb(t, Len(b)))
                                \div b[Len(b)]))
\* long division, limb by limb from the high end: r is the remainder so
\* far, q the limbs of the quotient found, t the remainder with the next
\* limb of a brought down
DivPut(st, t, d) ==
  [a |-> st.a, b |-> st.b, r |-> NatSub(t, NatMulSmall(st.b, d)), q |-> <<d>> \o st.q]
DivDigit(st, t) == DivPut(st, t, QuotDigit(t, st.b))
DivStep(j, st) == DivDigit(st, NatNorm(<<st.a[Len(st.a) + 1 - j]>> \o st.r))
NatDivNorm(a, b) ==
  IF a = <<>> THEN <<>>
  ELSE NatNorm(Repeat(DivStep, 1, Len(a), [a |-> a, b |-> b, r |-> <<>>, q |-> <<>>]).q)
\* a \div b for b # 0; both are first scaled to bring the high limb of b
\* to Base / 2 or more
NatDiv(a, b) ==
  NatDivNorm(ShiftLeft(a, LimbBits - BitsOf(b[Len(b)])),
             ShiftLeft(b, LimbBits - BitsOf(b[Len(b)])))

\* division by one limb d, 0 < d < Base: r is the remainder so far and t
\* the remainder with the next limb of a brought down
SmallPut(st, t) == [a |-> st.a, d |-> st.d, r |-> t % st.d, q |-> <<t \div st.d>> \o st.q]
SmallStep(j, st) == SmallPut(st, st.r * Base + st.a[Len(st.a) + 1 - j])
NatDivSmall(a, d) ==
  IF a = <<>> THEN <<>>
  ELSE NatNorm(Repeat(SmallStep, 1, Len(a), [a |-> a, d |-> d, r |-> 0, q |-> <<>>]).q)

\* ------------------------------------------------------------------------
\* Rounding to p bits, with no exponent below lo.
\* ------------------------------------------------------------------------
\* bits of a double's mantissa, exponent of its last subnormal bit, and
\* the power of two no finite double reaches
MantBits == 53
MinExp == -1074
MaxTop == 1024

FZero == [s |-> 0, m |-> <<>>, e |-> 0]
\* the zero of sign s
Zero(s) == IF s < 0 THEN [s |-> 0, m |-> <<>>, e |-> -1] ELSE FZero
\* the sign of x, that of a zero included
SignOf(x) == IF x.s = 0 THEN (IF x.e < 0 THEN -1 ELSE 1) ELSE x.s
NaN == [s |-> 2, m |-> <<>>, e |-> 0]
Inf(s) == [s |-> s, m |-> <<>>, e |-> 0]
Fin(s, m, e) == [s |-> s, m |-> m, e |-> e]
IsNaN(x) == x.s = 2
IsInf(x) == (x.s = 1 \/ x.s = -1) /\ x.m = <<>>
IsFinite(x) == x.s = 0 \/ ((x.s = 1 \/ x.s = -1) /\ x.m # <<>>)
\* the power of two above a finite non-zero value
Top(x) == x.e + BitLen(x.m)

\* c compares the dropped bits with one half; st: more follows them
RoundUp(q, c, st) == c > 0 \/ (c = 0 /\ (st \/ Limb(q, 1) % 2 = 1))
\* a mantissa that has grown to p + 1 bits is a power of two
Renorm(s, m, e, p) ==
  IF BitLen(m) > p THEN Fin(s, ShiftRight(m, 1), e + 1) ELSE Fin(s, m, e)
RoundCut(s, q, up, e, p) ==
  IF up THEN Renorm(s, NatAdd(q, <<1>>), e, p)
  ELSE IF q = <<>> THEN Zero(s)
  ELSE Fin(s, q, e)
RoundQ(s, n, q, e, st, p, k) ==
  RoundCut(s, q, RoundUp(q, NatCmp(LowBits(n, k), Pow2(k - 1)), st), e + k, p)
\* k bits are dropped (k > 0) or -k zero bits appended
RoundAt(s, n, e, st, p, k) ==
  IF k <= 0 THEN Fin(s, ShiftLeft(n, -k), e + k)
  ELSE RoundQ(s, n, ShiftRight(n, k), e, st, p, k)
\* s * n * 2^e (a little more when st) to the nearest value of p bits
Round(s, n, e, st, p, lo) ==
  IF n = <<>> THEN Zero(s)
  ELSE RoundAt(s, n, e, st, p, MaxOf(BitLen(n) - p, lo - e))

Overflow(x) == IF x.s # 0 /\ Top(x) > MaxTop THEN Inf(x.s) ELSE x
\* the double nearest to s * n * 2^e
Double(s, n, e, st) == Overflow(Round(s, n, e, st, MantBits, MinExp))

\* s * n * 2^e without its last k bits (k > 0), or with -k zero bits
\* appended: cut toward zero, or away from zero when up
Chop(s, n, e, up, k) ==
  IF k <= 0 THEN Fin(s, ShiftLeft(n, -k), e + k)
  ELSE RoundCut(s, ShiftRight(n, k), up /\ LowBits(n, k) # <<>>, e + k, MantBits)
\* the bits of a fixed-point result of exp or log that are right: the
\* error of w is below w / 2^GuardBits
GuardBits == 90
\* the doubles next below and next above a value that is not a double and
\* has been computed as w: either is what the library may return (a third
\* one where w cannot tell on which side of a double the exact value lies)
NearDoubles(w) ==
  { Overflow(Chop(w.s, n, w.e, up, MaxOf(BitLen(n) - MantBits, MinExp - w.e))) :
      n \in {NatSub(w.m, NatAdd(ShiftRight(w.m, GuardBits), <<1>>)),
             NatAdd(w.m, NatAdd(ShiftRight(w.m, GuardBits), <<1>>))},
      up \in BOOLEAN }

\* ------------------------------------------------------------------------
\* Sum, product and quotient of finite values, rounded to p bits.
\* ------------------------------------------------------------------------
SubAligned(sx, sy, a, b, e, p, lo, c) ==
  IF c = 0 THEN FZero
  ELSE IF c > 0 THEN Round(sx, NatSub(a, b), e, FALSE, p, lo)
  ELSE Round(sy, NatSub(b, a), e, FALSE, p, lo)
AddAligned(sx, sy, a, b, e, p, lo) ==
  IF sx = sy THEN Round(sx, NatAdd(a, b), e, FALSE, p, lo)
  ELSE SubAligned(sx, sy, a, b, e, p, lo, NatCmp(a, b))
AddCore(x, y, p, lo) ==
  IF x.s = 0 /\ y.s = 0 THEN Zero(IF SignOf(x) < 0 /\ SignOf(y) < 0 THEN -1 ELSE 1)
  ELSE IF x.s = 0 THEN Round(y.s, y.m, y.e, FALSE, p, lo)
  ELSE IF y.s = 0 THEN Round(x.s, x.m, x.e, FALSE, p, lo)
  ELSE IF Top(x) - Top(y) > p + 2 /\ BitLen(x.m) <= p THEN Round(x.s, x.m, x.e, FALSE, p, lo)
  ELSE IF Top(y) - Top(x) > p + 2 /\ BitLen(y.m) <= p THEN Round(y.s, y.m, y.e, FALSE, p, lo)
  ELSE AddAligned(x.s, y.s, ShiftLeft(x.m, x.e - MinOf(x.e, y.e)),
                  ShiftLeft(y.m, y.e - MinOf(x.e, y.e)), MinOf(x.e, y.e), p, lo)

MulCore(x, y, p, lo) ==
  IF x.s = 0 \/ y.s = 0 THEN Zero(SignOf(x) * SignOf(y))
  ELSE Round(x.s * y.s, NatMul(x.m, y.m), x.e + y.e, FALSE, p, lo)

\* the quotient q of num by den, with more to follow if it is not exact
DivRem(s, num, den, q, e, p, lo) == Round(s, q, e, NatMul(q, den) # num, p, lo)
DivQuot(s, num, den, e, p, lo) == DivRem(s, num, den, NatDiv(num, den), e, p, lo)
\* the dividend shifted by k bits gives a quotient of p + 2 bits or more
DivAt(x, y, p, lo, k) ==
  DivQuot(x.s * y.s, ShiftLeft(x.m, MaxOf(k, 0)), y.m, x.e - y.e - MaxOf(k, 0), p, lo)
\* x / y for y # 0
DivCore(x, y, p, lo) ==
  IF x.s = 0 THEN Zero(SignOf(x) * SignOf(y))
  ELSE DivAt(x, y, p, lo, p + 2 + BitLen(y.m) - BitLen(x.m))

\* ------------------------------------------------------------------------
\* Doubles.
\* ------------------------------------------------------------------------
FromInt(n) ==
  IF n = 0 THEN FZero
  ELSE IF n < 0 THEN Double(-1, NatOf(-n), 0, FALSE) ELSE Double(1, NatOf(n), 0, FALSE)

FNeg(x) ==
  IF x.s = 0 THEN Zero(-SignOf(x))
  ELSE IF x.s = 1 \/ x.s = -1 THEN [x EXCEPT !.s = -x.s]
  ELSE x

\* compare the magnitudes of two non-zero values
MagCmp(x, y) ==
  IF IsInf(x) THEN (IF IsInf(y) THEN 0 ELSE 1)
  ELSE IF IsInf(y) THEN -1
  ELSE IF Top(x) < Top(y) THEN -1
  ELSE IF Top(x) > Top(y) THEN 1
  ELSE NatCmp(ShiftLeft(x.m, x.e - MinOf(x.e, y.e)),
              ShiftLeft(y.m, y.e - MinOf(x.e, y.e)))

\* -1, 0, 1 for x, y that are not NaN; the two zeros are equal
FCmp(x, y) ==
  IF x.s # y.s THEN (IF x.s < y.s THEN -1 ELSE 1)
  ELSE IF x.s = 0 THEN 0
  ELSE x.s * MagCmp(x, y)

\* comparisons are false when an operand is NaN
FLt(x, y) == ~IsNaN(x) /\ ~IsNaN(y) /\ FCmp(x, y) < 0
FLe(x, y) == ~IsNaN(x) /\ ~IsNaN(y) /\ FCmp(x, y) <= 0
FGt(x, y) == FLt(y, x)
FGe(x, y) == FLe(y, x)

\* x + y; a sum that is exactly zero is +0.0, unless both terms are -0.0
FAdd(x, y) ==
  IF IsNaN(x) \/ IsNaN(y) THEN NaN
  ELSE IF IsInf(x) THEN (IF IsInf(y) /\ y.s # x.s THEN NaN ELSE x)
  ELSE IF IsInf(y) THEN y
  ELSE Overflow(AddCore(x, y, MantBits, MinExp))

FSub(x, y) == FAdd(x, FNeg(y))

\* x * y; a zero product has the product of the signs
FMul(x, y) ==
  IF IsNaN(x) \/ IsNaN(y) THEN NaN
  ELSE IF IsInf(x) \/ IsInf(y)
       THEN (IF x.s = 0 \/ y.s = 0 THEN NaN ELSE Inf(x.s * y.s))
  ELSE Overflow(MulCore(x, y, MantBits, MinExp))

\* x / y as IEEE 754 and numpy divide: a zero divisor gives an infinity,
\* or NaN for 0 / 0 (Python's own float division raises instead, which the
\* callers decide before they divide); zeros and infinities have the
\* product of the signs, so that 1 / -0.0 is -inf
FDiv(x, y) ==
  IF IsNaN(x) \/ IsNaN(y) THEN NaN
  ELSE IF IsInf(x) THEN (IF IsInf(y) THEN NaN ELSE Inf(x.s * SignOf(y)))
  ELSE IF IsInf(y) THEN Zero(SignOf(x) * y.s)
  ELSE IF y.s = 0 THEN (IF x.s = 0 THEN NaN ELSE Inf(x.s * SignOf(y)))
  ELSE Overflow(DivCore(x, y, MantBits, MinExp))

\* the literal n / 10^d, d <= 9, as Python reads it
Dec(n, d) == IF d = 0 THEN FromInt(n) ELSE FDiv(FromInt(n), FromInt(10 ^ d))
\* the literal hi * 10^8 + lo over 10^(8 + d), as Python reads it (both below 2^53)
DecOf(hi, lo, d) ==
  FDiv(Double(1, NatAdd(NatMul(NatOf(hi), NatOf(10 ^ 8)), NatOf(lo)), 0, FALSE),
       Double(1, NatMul(NatOf(10 ^ d), NatOf(10 ^ 8)), 0, FALSE))

FOne == FromInt(1)
FTwo == FromInt(2)

\* ------------------------------------------------------------------------
\* exp and log in fixed point: the natural number a stands for a / 2^FracBits.
\* ------------------------------------------------------------------------
FracBits == 110
\* terms after which the series of exp and of log add nothing, and the
\* halvings of the argument of exp
ExpTerms == 16
ExpHalvings == 5
LogTerms == 26

One == Pow2(FracBits)
FixMul(a, b) == ShiftRight(NatMul(a, b), FracBits)
\* m * 2^e in fixed point
ToFix(m, e) ==
  IF e + FracBits >= 0 THEN ShiftLeft(m, e + FracBits) ELSE ShiftRight(m, -(e + FracBits))

\* sum = 1 + w/3 + ... + w^(j-1)/(2j-1) and pw = w^(j-1) gain the term j
AtanhPut(st, pw, j) ==
  [w |-> st.w, pw |-> pw, sum |-> NatAdd(st.sum, NatDivSmall(pw, 2 * j + 1))]
AtanhStep(j, st) == IF st.pw = <<>> THEN st ELSE AtanhPut(st, FixMul(st.pw, st.w), j)
\* atanh(z) / z = 1 + w/3 + w^2/5 + ... for w = z^2
AtanhG(w) == Repeat(AtanhStep, 1, LogTerms, [w |-> w, pw |-> One, sum |-> One]).sum
\* atanh(z) * 2^sh for z = zs / 2^sh
AtanhFix(zs, sh) == FixMul(zs, AtanhG(ShiftRight(NatMul(zs, zs), FracBits + 2 * sh)))
\* ln 2 in fixed point: the limbs of the integer part of ln 2 * 2^110
Ln2 == <<252, 13208, 10126, 6844, 13278, 14289, 2143, 2839>>

\* sum = 1 + x + ... + x^(n-1)/(n-1)! and term = x^n/n! move one term on
ExpStep(n, st) ==
  IF st.term = <<>> THEN st
  ELSE [x |-> st.x, term |-> NatDivSmall(FixMul(st.term, st.x), n + 1),
        sum |-> NatAdd(st.sum, st.term)]
\* e^x for 0 <= x < 1/32
ExpSeries(x) == Repeat(ExpStep, 1, ExpTerms, [x |-> x, term |-> x, sum |-> One]).sum
Square(j, y) == FixMul(y, y)
\* e^r for 0 <= r < ln 2, as (e^(r / 2^h))^(2^h)
ExpOf(r) == Repeat(Square, 1, ExpHalvings, ExpSeries(ShiftRight(r, ExpHalvings)))
\* e^r * 2^k
ExpScaled(k, r) == NearDoubles(Fin(1, ExpOf(r), k - FracBits))
\* |x| = ax = kk * ln 2 + rem, and x = k * ln 2 + r with 0 <= r < ln 2
ExpSplit(s, ax, kk) ==
  IF s > 0 THEN ExpScaled(NatVal(kk), NatSub(ax, NatMul(kk, Ln2)))
  ELSE IF ax = NatMul(kk, Ln2) THEN ExpScaled(-NatVal(kk), <<>>)
  ELSE ExpScaled(-NatVal(kk) - 1, NatSub(Ln2, NatSub(ax, NatMul(kk, Ln2))))
\* e^x for a finite x, 2^-53 <= |x| < 1024 (x is exact in fixed point)
ExpPos(x) == ExpSplit(x.s, ToFix(x.m, x.e), NatDiv(ToFix(x.m, x.e), Ln2))

\* the values numpy.exp may return: infinite above 709.78, zero below
\* -745.13, 1 at either zero and nowhere else exact; for |x| < 2^-53 the
\* exact value lies between 1 and the double next to it on the side of x
FExp(x) ==
  IF IsNaN(x) THEN {NaN}
  ELSE IF x.s = 0 THEN {FOne}
  ELSE IF IsInf(x) THEN {IF x.s > 0 THEN x ELSE FZero}
  ELSE IF FGt(x, FromInt(710)) THEN {Inf(1)}
  ELSE IF FLt(x, FromInt(-746)) THEN {FZero}
  ELSE IF Top(x) <= -MantBits
  THEN (IF x.s > 0 THEN {FOne, Fin(1, NatAdd(Pow2(MantBits - 1), <<1>>), 1 - MantBits)}
        ELSE {Fin(1, NatSub(Pow2(MantBits), <<1>>), -MantBits), FOne})
  ELSE ExpPos(x)

\* k ln 2 + s * 2 atanh(num / den), where num / den = zs / 2^(FracBits + sh);
\* 400 bits and exponents down to -100000 leave the sum unrounded
LnSum(k, s, zs, sh) ==
  AddCore(IF k = 0 THEN FZero
          ELSE Fin(IF k < 0 THEN -1 ELSE 1,
                   NatMul(NatOf(IF k < 0 THEN -k ELSE k), Ln2), -FracBits),
          IF zs = <<>> THEN FZero ELSE Fin(s, AtanhFix(zs, sh), 1 - FracBits - sh),
          400, -100000)
LnRatio(k, s, num, den, sh) == LnSum(k, s, NatDiv(ShiftLeft(num, FracBits + sh), den), sh)
\* ln(mm * 2^k) for mm = m / one, 3/4 <= mm < 3/2: ln mm = 2 atanh((mm - 1)/(mm + 1))
LnScaled(m, one, k) ==
  IF NatCmp(m, one) < 0
  THEN LnRatio(k, -1, NatSub(one, m), NatAdd(m, one),
               BitLen(NatAdd(m, one)) - BitLen(NatSub(one, m)))
  ELSE LnRatio(k, 1, NatSub(m, one), NatAdd(m, one),
               BitLen(NatAdd(m, one)) - BitLen(NatSub(m, one)))
\* m has len bits; big: m / 2^len is 3/4 or more
LnSplit(m, e, len, big) ==
  IF big THEN LnScaled(m, Pow2(len), e + len)
  ELSE LnScaled(m, Pow2(len - 1), e + len - 1)
\* ln x for a finite x > 0, x # 1, in fixed point
FLn(x) ==
  LnSplit(x.m, x.e, BitLen(x.m),
          NatCmp(ShiftLeft(x.m, 2), NatMulSmall(Pow2(BitLen(x.m)), 3)) >= 0)
\* the values the logarithm of x > 0 or NaN may have: exact at 1 only
LogPos(x) ==
  IF IsNaN(x) \/ IsInf(x) THEN {x}
  ELSE IF x = FOne THEN {FZero}
  ELSE NearDoubles(FLn(x))

\* the values numpy.log may return: NaN for a negative argument, -inf at
\* either zero, nothing raised
NpLog(x) ==
  IF IsNaN(x) THEN {NaN}
  ELSE IF x.s = 0 THEN {Inf(-1)}
  ELSE IF x.s < 0 THEN {NaN}
  ELSE LogPos(x)

\* ------------------------------------------------------------------------
\* Rounding to integers.
\* ------------------------------------------------------------------------
\* the integer q, or q + 1 when up, with sign s
IntOf(s, q, up) ==
  IF up THEN Double(s, NatAdd(q, <<1>>), 0, FALSE) ELSE Double(s, q, 0, FALSE)
HasFraction(x) == IsFinite(x) /\ x.s # 0 /\ x.e < 0
\* numpy.rint: the nearest integer, ties to even
FRint(x) ==
  IF ~HasFraction(x) THEN x
  ELSE IntOf(x.s, ShiftRight(x.m, -x.e),
             RoundUp(ShiftRight(x.m, -x.e),
                     NatCmp(LowBits(x.m, -x.e), Pow2(-x.e - 1)), FALSE))
\* the least 64-bit integer, -2^63
Int64Min == Double(-1, Pow2(63), 0, FALSE)
\* astype(int) of a float64: the integer toward zero.  C leaves the
\* conversion undefined for NaN and outside the range of int64, where an
\* x86-64 build gives -2^63 (wraps) and others give the nearer end of the
\* range, -2^63 or 2^63 - 1, and 0 for NaN
AsInt64(x, wraps) ==
  IF IsNaN(x) \/ FLt(x, Int64Min) \/ FGe(x, FNeg(Int64Min))
  THEN (IF wraps \/ x.s < 0 THEN Int64Min
        ELSE IF IsNaN(x) THEN FZero
        ELSE Fin(1, NatSub(Pow2(63), <<1>>), 0))
  ELSE IF x.s = 0 \/ (x.e < 0 /\ ShiftRight(x.m, -x.e) = <<>>) THEN FZero
  ELSE IF x.e >= 0 THEN x
  ELSE IntOf(x.s, ShiftRight(x.m, -x.e), FALSE)
\* the least integer not below x
FCeil(x) ==
  IF ~HasFraction(x) THEN x
  ELSE IntOf(x.s, ShiftRight(x.m, -x.e), x.s > 0 /\ LowBits(x.m, -x.e) # <<>>)
\* the value of an integral x, |x| < 2^31
ToInt(x) ==
  IF x.s = 0 THEN 0
  ELSE IF x.e >= 0 THEN x.s * NatVal(ShiftLeft(x.m, x.e))
  ELSE x.s * NatVal(ShiftRight(x.m, -x.e))

\* numpy.round(x, d): rint(x * 10^d) / 10^d, and rint(x) for d = 0
NpRound(x, d) ==
  IF d = 0 THEN FRint(x)
  ELSE FDiv(FRint(FMul(x, FromInt(10 ^ d))), FromInt(10 ^ d))


\* numpy.pi and math.pi
Pi == DecOf(31415926, 53589793, 7)
TwoPi == FMul(FTwo, Pi)
FeetPerMile == FromInt(5280)

\* ------------------------------------------------------------------------
\* Physics helpers.  A call either returns a value or raises; where it
\* takes a logarithm, it has the set of the outcomes the library allows.
\* ------------------------------------------------------------------------
Ok(v) == [err |-> "none", val |-> v]
Raise(name) == [err |-> name, val |-> NaN]

convective_h(wind_mph) == FAdd(Dec(15, 1), FMul(Dec(25, 2), wind_mph))

\* line 68-69
area_per_mile(r_o_ft) == FMul(FMul(TwoPi, r_o_ft), FeetPerMile)
\* line 70: the quotient of the radii is a division of Python floats, which
\* the caller has found defined; numpy.log returns a float64, so that the
\* division by 2 pi k 5280 is numpy's and gives an infinity or NaN for k = 0
R_wall(r_i_ft, r_o_ft, k_wall) ==
  { FDiv(l, FMul(FMul(TwoPi, k_wall), FeetPerMile)) : l \in NpLog(FDiv(r_o_ft, r_i_ft)) }
\* lines 71-72, given h_out * area_per_mile: 1.0 / (h_out * area_per_mile)
\* divides Python floats and raises at zero, 1.0 / (R_wall + R_out) divides
\* by a float64 and does not: a sum of -0.0 gives -inf
UAFromFilm(r_i_ft, r_o_ft, k_wall, hA) ==
  IF hA.s = 0 THEN {Raise("ZeroDivisionError")}
  ELSE { Ok(FDiv(FOne, FAdd(rw, FDiv(FOne, hA)))) : rw \in R_wall(r_i_ft, r_o_ft, k_wall) }

compute_UA_per_mile(r_i_ft, r_o_ft, k_wall, h_out) ==
  IF r_i_ft.s = 0 THEN {Raise("ZeroDivisionError")}
  ELSE UAFromFilm(r_i_ft, r_o_ft, k_wall, FMul(h_out, area_per_mile(r_o_ft)))

r_ft(d_in) == FDiv(FDiv(d_in, FromInt(12)), FTwo)

\* math.log(ratio) / c, with Python's exceptions
LogOver(ratio, c) ==
  IF ratio.s <= 0 THEN {Raise("ValueError")}
  ELSE IF c.s = 0 THEN {Raise("ZeroDivisionError")}
  ELSE { Ok(FDiv(l, c)) : l \in LogPos(ratio) }
\* lines 82-84: math.log(num / den) / (2 * math.pi * k * 5280.0)
LogResistance(num, den, k) ==
  IF den.s = 0 THEN {Raise("ZeroDivisionError")}
  ELSE LogOver(FDiv(num, den), FMul(FMul(TwoPi, k), FeetPerMile))

\* line 87
NestedTotal(total) ==
  IF total.s = 0 THEN Raise("ZeroDivisionError") ELSE Ok(FDiv(FOne, total))
\* lines 82-87 in order, given the three wall resistances and h_out * A_out
NestedSum(R_inner, R_air, R_outer, hA) ==
  IF R_inner.err # "none" THEN R_inner
  ELSE IF R_air.err # "none" THEN R_air
  ELSE IF R_outer.err # "none" THEN R_outer
  ELSE IF hA.s = 0 THEN Raise("ZeroDivisionError")
  ELSE NestedTotal(FAdd(FAdd(FAdd(R_inner.val, R_air.val), R_outer.val),
                        FDiv(FOne, hA)))
\* lines 77-80 give the four radii
NestedRadii(r_o_inner, r_i_inner, r_o_outer, r_i_outer, k_wall, h_out, k_eff_air) ==
  { NestedSum(R_inner, R_air, R_outer, FMul(h_out, area_per_mile(r_o_outer))) :
      R_inner \in LogResistance(r_o_inner, r_i_inner, k_wall),
      R_air \in LogResistance(r_i_outer, r_o_inner, k_eff_air),
      R_outer \in LogResistance(r_o_outer, r_i_outer, k_wall) }

UA_per_mile_nested(inner_nom_in, outer_nom_in, wall_in, k_wall, h_out, k_eff_air) ==
  NestedRadii(r_ft(inner_nom_in),
              r_ft(FSub(inner_nom_in, FMul(FTwo, wall_in))),
              r_ft(outer_nom_in),
              r_ft(FSub(outer_nom_in, FMul(FTwo, wall_in))),
              k_wall, h_out, k_eff_air)

\* ------------------------------------------------------------------------
\* State.
\* ------------------------------------------------------------------------
VARIABLES
  pc,             \* "sidebar", "call", "sweep", "table", "done", "error"
  sidebar,        \* the pipe selection widgets and the resolved od_in
  args,           \* the arguments of inlet_temp_curve
  UA_pm, UA_total,
  flows, i,       \* the flow samples and the index of the next one
  required_in, losses, heater_duties, outlet_vals, fuel_costs,
  df,             \* the returned table, one record per row
  err             \* the exception that ended the run, or "none"

vars == <<pc, sidebar, args, UA_pm, UA_total, flows, i, required_in, losses,
          heater_duties, outlet_vals, fuel_costs, df, err>>

\* a variable that has not been assigned
Unset == [s |-> 3, m |-> <<>>, e |-> 0]

NoneCfg == [isNone |-> TRUE, inner_nom_in |-> Unset, outer_nom_in |-> Unset,
            k_eff_air |-> Unset, add_5pct |-> "absent"]
NestedCfg(inner, outer, k_air, flag) ==
  [isNone |-> FALSE, inner_nom_in |-> inner, outer_nom_in |-> outer,
   k_eff_air |-> k_air, add_5pct |-> flag]

\* nested_cfg.get("add_5pct", True)
Get_add_5pct(cfg) == cfg.add_5pct # "False"

NoSidebar == [pipe_type |-> "none", nominal_choice |-> 0, dr |-> Unset, od_in |-> Unset]
NoArgs == [T_amb |-> Unset, wind_mph |-> Unset, length_miles |-> Unset,
           id_in |-> Unset, wall_in |-> Unset, k_wall |-> Unset,
           T_out_target |-> Unset, T_source |-> Unset, eff_frac |-> Unset,
           fuel_price |-> Unset, btu_per_unit |-> Unset,
           flow_min |-> Unset, flow_max |-> Unset, flow_step |-> Unset,
           nested_cfg |-> NoneCfg]

\* ------------------------------------------------------------------------
\* Sidebar widgets.
\* ------------------------------------------------------------------------
nominal_options == {2 * n : n \in 2..12}
\* the DR ratings, in tenths
dr_list == {70, 90, 110, 135, 170, 210, 260, 325}
\* outer diameters of HDPE pipe, in thousandths of an inch
HDPE_OD_MAP == [n \in nominal_options |->
  CASE n = 4 -> 4500 [] n = 6 -> 6625 [] n = 8 -> 8625 [] n = 10 -> 10750
    [] n = 12 -> 12750 [] OTHER -> n * 1000]
fuel_btu == [t \in {"Propane", "Diesel", "Natural Gas"} |->
  CASE t = "Propane" -> 91500 [] t = "Diesel" -> 138700 [] OTHER -> 103000]

\* the resolved geometry of an outer diameter, a wall and the rest
Geometry(od_in, wall_in, id_from, k_wall, cfg, dr) ==
  [od_in |-> od_in, wall_in |-> wall_in,
   id_in |-> FSub(id_from, FMul(FTwo, wall_in)),
   k_wall |-> k_wall, nested_cfg |-> cfg, dr |-> dr]
\* the wall taken as od * dr instead of od / dr
HdpeGeometry_product(od, dr) == Geometry(od, FMul(od, dr), od, Dec(26, 2), NoneCfg, dr)
\* lines 174-183
HdpeGeometry(od, dr) == Geometry(od, FDiv(od, dr), od, Dec(26, 2), NoneCfg, dr)
\* lines 167-173
NestedGeometry(inner_nom, outer_nom) ==
  Geometry(outer_nom, Dec(15, 2), inner_nom, Dec(116, 3),
           NestedCfg(inner_nom, outer_nom, Dec(8, 2), "True"), Unset)

\* lines 159-183: the geometry of a selection (dr is read for HDPE only)
ResolveGeometry(pipe_type, nom, dr) ==
  IF pipe_type = "Layflat TPU"
  THEN Geometry(FromInt(nom), Dec(15, 2), FromInt(nom), Dec(116, 3), NoneCfg, Unset)
  ELSE IF pipe_type = "Nested TPU Layflat"
  THEN NestedGeometry(FromInt(nom), FAdd(FromInt(nom), FromInt(4)))
  ELSE HdpeGeometry(Dec(HDPE_OD_MAP[nom], 3), Dec(dr, 1))

\* ------------------------------------------------------------------------
\* inlet_temp_curve, line by line.
\* ------------------------------------------------------------------------
cp == FOne
\* 42.0 * 8.34 lb/bbl
lb_per_bbl == FMul(FromInt(42), Dec(834, 2))

\* numpy fills the array with start, next = start + step, and from the
\* third element on start + j * delta, where delta = next - start
ArangeFill(start, next, delta, n) ==
  [j \in 1..n |-> IF j = 1 THEN start
                  ELSE IF j = 2 THEN next
                  ELSE FAdd(start, FMul(FromInt(j - 1), delta))]
\* the array of len elements: no length for NaN, none beyond the range of
\* a 64-bit index, and no memory for 2^31 elements or more
ArangeLen(start, step, len) ==
  IF IsNaN(len) THEN Raise("ValueError")
  ELSE IF FGt(len, Fin(1, <<1>>, 63)) \/ FLt(len, Fin(-1, <<1>>, 63))
  THEN Raise("OverflowError")
  ELSE IF len.s <= 0 THEN Ok(<<>>)
  ELSE IF FGe(len, Fin(1, <<1>>, 31)) THEN Raise("MemoryError")
  ELSE Ok(ArangeFill(start, FAdd(start, step),
                     FSub(FAdd(start, step), start), ToInt(len)))
\* line 116: numpy.arange(flow_min, flow_max + 1, flow_step, dtype=float);
\* the length is ceil((stop - start) / step), a division of Python numbers
Arange(flow_min, flow_max, flow_step) ==
  IF flow_step.s = 0 THEN Raise("ZeroDivisionError")
  ELSE ArangeLen(flow_min, flow_step,
                 FCeil(FDiv(FSub(FAdd(flow_max, FOne), flow_min), flow_step)))

\* the 5 % allowance left out
Correct_omitted(u, cfg) == u
\* lines 109-110
Correct(u, cfg) ==
  IF u.err # "none" THEN u
  ELSE IF Get_add_5pct(cfg) THEN Ok(FMul(u.val, Dec(105, 2)))
  ELSE u

\* line 96
InnerRadius(id_in) == FDiv(FDiv(id_in, FromInt(12)), FTwo)
\* line 97
OuterRadius(r_i, wall_in) == FAdd(r_i, FDiv(wall_in, FromInt(12)))

\* lines 96-112: UA per mile of the selected construction
UAPerMile(a) ==
  IF ~a.nested_cfg.isNone
  THEN { Correct(u, a.nested_cfg) :
           u \in UA_per_mile_nested(a.nested_cfg.inner_nom_in,
                   a.nested_cfg.outer_nom_in, a.wall_in, a.k_wall,
                   convective_h(a.wind_mph), a.nested_cfg.k_eff_air) }
  ELSE compute_UA_per_mile(InnerRadius(a.id_in),
                           OuterRadius(InnerRadius(a.id_in), a.wall_in),
                           a.k_wall, convective_h(a.wind_mph))

\* the line length left out
UATotal_per_mile(ua_pm, length_miles) == ua_pm
\* line 114
UATotal(ua_pm, length_miles) == FMul(ua_pm, length_miles)

\* lines 120-121
MassFlowCp(f) == FMul(FMul(FMul(f, lb_per_bbl), FromInt(60)), cp)

\* the division without its guard
Exponent_unguarded(ua_total, mcp) == FDiv(ua_total, mcp)
\* line 122
Exponent(ua_total, mcp) == IF FGt(mcp, FZero) THEN FDiv(ua_total, mcp) ELSE FZero

\* lines 124 and 137, given the exponential e: T_amb + (T - T_amb) * e
Exchange(T_amb, T, e) == FAdd(T_amb, FMul(FSub(T, T_amb), e))

\* the exponent with the wrong sign
RequiredInlet_decay(T_amb, T_out_target, k) ==
  { Exchange(T_amb, T_out_target, e) : e \in FExp(FNeg(k)) }
\* line 124; numpy.exp overflows to infinity, and 0 * inf is NaN
RequiredInlet(T_amb, T_out_target, k) ==
  { Exchange(T_amb, T_out_target, e) : e \in FExp(k) }

\* the temperature difference taken the other way round
HeatLoss_reversed(mcp, T_in_required, T_out_target) ==
  FDiv(FMul(mcp, FSub(T_out_target, T_in_required)), FromInt(1000000))
\* lines 126-127, in MMBtu/hr
HeatLoss(mcp, T_in_required, T_out_target) ==
  FDiv(FMul(mcp, FSub(T_in_required, T_out_target)), FromInt(1000000))

\* the comparison with its operands exchanged
HeatingRequired_swapped(T_source, T_in_required) == FLt(T_in_required, T_source)
\* line 129
HeatingRequired(T_source, T_in_required) == FLt(T_source, T_in_required)

\* lines 130 and 135
HeaterQ(mcp, T_in_required, T_source) ==
  IF HeatingRequired(T_source, T_in_required)
  THEN FMul(mcp, FSub(T_in_required, T_source))
  ELSE FZero

\* lines 131 and 136, in MMBtu/hr
HeaterDuty(Q_heater) == FDiv(Q_heater, FromInt(1000000))

\* line 137: the outlet temperature of water that enters at T_in
ForwardOutlet(T_amb, T_in, k) ==
  { Exchange(T_amb, T_in, e) : e \in FExp(FNeg(k)) }

\* the forward relation with a growing exponential
OutletTemp_growing(T_amb, T_out_target, T_source, T_in_required, k) ==
  IF HeatingRequired(T_source, T_in_required)
  THEN {T_out_target}
  ELSE { Exchange(T_amb, T_source, e) : e \in FExp(k) }
\* lines 132 and 137
OutletTemp(T_amb, T_out_target, T_source, T_in_required, k) ==
  IF HeatingRequired(T_source, T_in_required)
  THEN {T_out_target}
  ELSE ForwardOutlet(T_amb, T_source, k)

\* lines 133 and 138; Q_heater is a float64, so that a zero efficiency or
\* heating value gives an infinite cost (NaN for a zero Q_heater)
FuelCost(Q_heater, heating, eff_frac, btu_per_unit, fuel_price) ==
  IF heating
  THEN FMul(FDiv(FDiv(FMul(Q_heater, FromInt(24)), eff_frac), btu_per_unit), fuel_price)
  ELSE FZero

\* lines 129-140, given the heater's output and the outlet temperature
HeaterResult(a, T_in_required, loss, Q_heater, outlet) ==
  [required |-> T_in_required,
   loss |-> loss,
   duty |-> HeaterDuty(Q_heater),
   outlet |-> outlet,
   cost |-> FuelCost(Q_heater, HeatingRequired(a.T_source, T_in_required),
                     a.eff_frac, a.btu_per_unit, a.fuel_price)]
\* lines 126-140, given the required inlet temperature
SampleAt(a, mcp, k, T_in_required) ==
  { HeaterResult(a, T_in_required,
                 HeatLoss(mcp, T_in_required, a.T_out_target),
                 HeaterQ(mcp, T_in_required, a.T_source), outlet) :
      outlet \in OutletTemp(a.T_amb, a.T_out_target, a.T_source, T_in_required, k) }
\* lines 124-140, given the exponent
SampleOfMcp(a, ua_total, mcp, k) ==
  UNION { SampleAt(a, mcp, k, T_in_required) :
            T_in_required \in RequiredInlet(a.T_amb, a.T_out_target, k) }
\* lines 120-140: what one iteration may append for the mass flow mcp
Sample(a, ua_total, mcp) == SampleOfMcp(a, ua_total, mcp, Exponent(ua_total, mcp))

\* lines 142-150: one row of the DataFrame; astype(int) drops the fraction
\* of the flow
Row(wraps, flow, T_source, req, outl, loss, duty, cost) ==
  [Flow |-> AsInt64(flow, wraps),
   SourceTemp |-> T_source,
   RequiredInletTemp |-> NpRound(req, 1),
   OutletTemp |-> NpRound(outl, 1),
   HeatLoss |-> NpRound(loss, 2),
   HeaterDuty |-> NpRound(duty, 2),
   DailyFuelCost |-> NpRound(cost, 0)]

\* ------------------------------------------------------------------------
\* Inputs.
\* ------------------------------------------------------------------------
\* the longest flow range selected, in steps
MaxSteps == 2

\* the widget values of one run: temperatures and wind in whole units, the
\* length in hundredths of a mile, the price in cents, the flows in bbl/min
Conditions(ts, ta, len, price, fmin, fmax, fstep) ==
  [T_source |-> FromInt(ts), T_amb |-> FromInt(ta), wind_mph |-> FromInt(5),
   length_miles |-> Dec(len, 2), T_out_target |-> FromInt(35),
   flow_min |-> FromInt(fmin), flow_max |-> FromInt(fmax), flow_step |-> FromInt(fstep),
   efficiency |-> 75, fuel_type |-> "Propane", fuel_price |-> Dec(price, 2)]

\* ambient below, just below, at and above the target; source at and above
\* the target; a short and a long line; free and priced fuel
ThermalConditions ==
  { Conditions(ts, ta, len, price, 15, 30, 15) :
      ts \in {35, 60}, ta \in {0, 34, 35, 50}, len \in {25, 500}, price \in {0, 230} }

\* integer flow ranges, from zero or not, ending on a sample or between two
FlowConditions ==
  { Conditions(35, 0, 500, 230, fmin, fmin + 15 * j + off, 15) :
      fmin \in {0, 15}, j \in 1..MaxSteps, off \in {0, 7} }

AllGeometry ==
  { <<t, n, 170>> : t \in {"Layflat TPU", "Nested TPU Layflat"}, n \in nominal_options }
  \cup { <<"HDPE", n, d>> : n \in nominal_options, d \in dr_list }

\* every selectable pipe under one set of conditions and a single flow, and
\* the 12 in layflat hose under every condition set
SidebarChoices ==
  { <<g, Conditions(35, 0, 500, 230, 15, 15, 15)>> : g \in AllGeometry }
  \cup { <<g, c>> : g \in {<<"Layflat TPU", 12, 170>>}, c \in ThermalConditions \cup FlowConditions }

\* lines 207-219: the arguments the script passes
SidebarArgs(geo, c) ==
  [T_amb |-> c.T_amb, wind_mph |-> c.wind_mph, length_miles |-> c.length_miles,
   id_in |-> geo.id_in, wall_in |-> geo.wall_in, k_wall |-> geo.k_wall,
   T_out_target |-> c.T_out_target, T_source |-> c.T_source,
   eff_frac |-> FDiv(FromInt(c.efficiency), FromInt(100)),
   fuel_price |-> c.fuel_price,
   btu_per_unit |-> FromInt(fuel_btu[c.fuel_type]),
   flow_min |-> c.flow_min, flow_max |-> c.flow_max, flow_step |-> c.flow_step,
   nested_cfg |-> geo.nested_cfg]

\* arguments of a direct call of inlet_temp_curve: -10 F, 20 mph wind,
\* 9.5 miles, with the given geometry and flow range
DirectArgs(id, wall, cfg, fmin, fmax, fstep) ==
  [T_amb |-> FromInt(-10), wind_mph |-> FromInt(20), length_miles |-> Dec(95, 1),
   id_in |-> id, wall_in |-> wall, k_wall |-> Dec(116, 3),
   T_out_target |-> FromInt(35), T_source |-> FromInt(35),
   eff_frac |-> Dec(75, 2), fuel_price |-> Dec(230, 2),
   btu_per_unit |-> FromInt(91500),
   flow_min |-> fmin, flow_max |-> fmax, flow_step |-> fstep,
   nested_cfg |-> cfg]

\* a direct call with the flows 15, 30
DirectGeometry(id, wall, cfg) ==
  DirectArgs(id, wall, cfg, FromInt(15), FromInt(30), FromInt(15))
\* a direct call for the 12 in hose with the given flow range
DirectFlows(fmin, fmax, fstep) ==
  DirectArgs(FromInt(12), Dec(15, 2), NoneCfg, fmin, fmax, fstep)

DirectCalls ==
  { \* a valid inside diameter of 12 in, integer and fractional flow ranges
    DirectFlows(FromInt(15), FromInt(60), FromInt(45)),
    DirectFlows(FromInt(15), FromInt(16), Dec(5, 1)),
    DirectFlows(Dec(155, 1), FromInt(17), Dec(75, 2)),
    \* a step of one tenth, which is not a binary fraction (fourteen
    \* samples, on a line of no length)
    [DirectFlows(FromInt(15), Dec(153, 1), Dec(1, 1)) EXCEPT !.length_miles = FZero],
    \* a single flow of 2^63 bbl/min, beyond the range of a 64-bit integer
    DirectFlows(Fin(1, <<1>>, 63), Fin(1, <<1>>, 64), Fin(1, <<1>>, 63)),
    \* a step of zero, and a range that is empty
    DirectFlows(FromInt(15), FromInt(30), FZero),
    DirectFlows(FromInt(30), FromInt(15), FromInt(5)),
    \* a flow so small that exp(k) overflows, the target above the ambient
    \* temperature and equal to it
    DirectFlows(Dec(4, 2), Dec(4, 2), FOne),
    [DirectFlows(Dec(4, 2), Dec(4, 2), FOne) EXCEPT !.T_amb = FromInt(35)],
    \* a wall that conducts nothing, a heater of no efficiency, a fuel of no
    \* heating value
    [DirectGeometry(FromInt(12), Dec(15, 2), NoneCfg) EXCEPT !.k_wall = FZero],
    [DirectGeometry(FromInt(12), Dec(15, 2), NoneCfg)
       EXCEPT !.T_source = FromInt(20), !.eff_frac = FZero],
    [DirectGeometry(FromInt(12), Dec(15, 2), NoneCfg)
       EXCEPT !.T_source = FromInt(20), !.btu_per_unit = FZero],
    \* a heater duty that lies between two hundredths
    [DirectFlows(FromInt(25), FromInt(25), FOne)
       EXCEPT !.T_amb = FZero, !.length_miles = FZero,
              !.T_out_target = FromInt(250), !.T_source = FZero],
    \* temperatures of one decimal whose difference is rounded, so that
    \* T_amb + (T_out_target - T_amb) is not T_out_target: from the flow 0,
    \* and on a line so short that exp(k) is 1
    [DirectFlows(FZero, FromInt(15), FromInt(15))
       EXCEPT !.T_amb = FromInt(-40), !.T_out_target = Dec(-136, 1),
              !.T_source = Dec(-136, 1)],
    [DirectGeometry(FromInt(12), Dec(15, 2), NoneCfg)
       EXCEPT !.T_amb = FromInt(-40), !.T_out_target = Dec(-136, 1),
              !.T_source = Dec(-136, 1), !.length_miles = Fin(1, <<1>>, -60)],
    \* a wind speed below zero, which makes the film coefficient negative
    [DirectGeometry(FromInt(12), Dec(15, 2), NoneCfg) EXCEPT !.wind_mph = FromInt(-20)],
    \* a wall of no thickness and negative conductivity in a wind of -2^1023
    \* mph: both resistances are -0.0 and UA_pm is -inf
    [DirectGeometry(FromInt(12), FZero, NoneCfg)
       EXCEPT !.wind_mph = Fin(-1, <<1>>, 1023), !.k_wall = Dec(-116, 3)],
    \* free fuel and a source just below the required inlet: a duty under
    \* half a hundredth of a MMBtu/hr, and one that underflows to zero (the
    \* target is the least positive double)
    [DirectGeometry(FromInt(12), Dec(15, 2), NoneCfg)
       EXCEPT !.T_amb = FromInt(35), !.T_source = Dec(3499, 2), !.fuel_price = FZero],
    [DirectGeometry(FromInt(12), Dec(15, 2), NoneCfg)
       EXCEPT !.T_amb = FZero, !.T_source = FZero,
              !.T_out_target = Fin(1, <<1>>, MinExp),
              !.length_miles = FOne, !.fuel_price = FZero],
    \* inside diameters that are not positive
    DirectGeometry(FromInt(-1), Dec(15, 2), NoneCfg),
    DirectGeometry(FZero, Dec(15, 2), NoneCfg),
    DirectGeometry(Dec(-2, 1), Dec(15, 2), NoneCfg),
    \* nested hoses: correction switched off, left to its default, and an
    \* inner hose thinner than its two walls
    DirectGeometry(Dec(117, 1), Dec(15, 2),
                   NestedCfg(FromInt(12), FromInt(16), Dec(8, 2), "False")),
    DirectGeometry(Dec(117, 1), Dec(15, 2),
                   NestedCfg(FromInt(12), FromInt(16), Dec(8, 2), "absent")),
    DirectGeometry(Dec(-1, 1), Dec(15, 2),
                   NestedCfg(Dec(2, 1), Dec(42, 1), Dec(8, 2), "True")) }

\* ------------------------------------------------------------------------
\* Actions.
\* ------------------------------------------------------------------------
Init ==
  /\ pc = "sidebar"
  /\ sidebar = NoSidebar
  /\ args = NoArgs
  /\ UA_pm = Unset /\ UA_total = Unset
  /\ flows = <<>> /\ i = 0
  /\ required_in = <<>> /\ losses = <<>> /\ heater_duties = <<>>
  /\ outlet_vals = <<>> /\ fuel_costs = <<>>
  /\ df = <<>>
  /\ err = "none"

\* lines 154-219: the script reads the widgets, resolves the geometry and
\* calls inlet_temp_curve
SidebarRun ==
  /\ pc = "sidebar"
  /\ \E ch \in SidebarChoices :
       \E geo \in {ResolveGeometry(ch[1][1], ch[1][2], ch[1][3])} :
         /\ sidebar' = [pipe_type |-> ch[1][1], nominal_choice |-> ch[1][2],
                        dr |-> geo.dr, od_in |-> geo.od_in]
         /\ args' = SidebarArgs(geo, ch[2])
  /\ pc' = "call"
  /\ UNCHANGED <<UA_pm, UA_total, flows, i, required_in, losses, heater_duties,
                 outlet_vals, fuel_costs, df, err>>

\* lines 89-92: inlet_temp_curve called with arguments of the caller's own
DirectCall ==
  /\ pc = "sidebar"
  /\ \E a \in DirectCalls : args' = a
  /\ pc' = "call"
  /\ UNCHANGED <<sidebar, UA_pm, UA_total, flows, i, required_in, losses,
                 heater_duties, outlet_vals, fuel_costs, df, err>>

\* lines 114-117: the two scalars are assigned, then numpy.arange returns
\* the samples fl or raises
AfterArange(ua_pm, ua_total, fl) ==
  /\ UA_pm' = ua_pm
  /\ UA_total' = ua_total
  /\ IF fl.err # "none"
     THEN /\ pc' = "error"
          /\ err' = fl.err
          /\ UNCHANGED <<flows, i>>
     ELSE /\ flows' = fl.val
          /\ i' = 1
          /\ pc' = IF fl.val = <<>> THEN "table" ELSE "sweep"
          /\ err' = err

\* the state after line 117, u being the outcome of the UA computation
AfterUA(u) ==
  IF u.err # "none"
  THEN /\ pc' = "error"
       /\ err' = u.err
       /\ UNCHANGED <<UA_pm, UA_total, flows, i>>
  ELSE AfterArange(u.val, UATotal(u.val, args.length_miles),
                   Arange(args.flow_min, args.flow_max, args.flow_step))

\* lines 93-117: the conductances and the flow samples, before the loop
ComputeUA ==
  /\ pc = "call"
  /\ \E u \in UAPerMile(args) : AfterUA(u)
  /\ UNCHANGED <<sidebar, args, required_in, losses, heater_duties, outlet_vals,
                 fuel_costs, df>>

\* lines 119-140: one iteration of the loop over the flow samples; the
\* five lists grow by the sample r
SweepStep ==
  /\ pc = "sweep"
  /\ \E r \in Sample(args, UA_total, MassFlowCp(flows[i])) :
       /\ required_in' = Append(required_in, r.required)
       /\ losses' = Append(losses, r.loss)
       /\ heater_duties' = Append(heater_duties, r.duty)
       /\ outlet_vals' = Append(outlet_vals, r.outlet)
       /\ fuel_costs' = Append(fuel_costs, r.cost)
  /\ i' = i + 1
  /\ pc' = IF i = Len(flows) THEN "table" ELSE "sweep"
  /\ UNCHANGED <<sidebar, args, UA_pm, UA_total, flows, df, err>>

\* lines 142-151: the DataFrame is built and returned with the two scalars;
\* the build decides how a flow outside the range of int64 is converted
BuildTable ==
  /\ pc = "table"
  /\ \E wraps \in BOOLEAN :
       df' = [j \in 1..Len(flows) |->
                Row(wraps, flows[j], args.T_source, required_in[j], outlet_vals[j],
                    losses[j], heater_duties[j], fuel_costs[j])]
  /\ pc' = "done"
  /\ UNCHANGED <<sidebar, args, UA_pm, UA_total, flows, i, required_in, losses,
                 heater_duties, outlet_vals, fuel_costs, err>>

Next == SidebarRun \/ DirectCall \/ ComputeUA \/ SweepStep \/ BuildTable

Spec == Init /\ [][Next]_vars


\* ------------------------------------------------------------------------
\* Properties of inlet_temp_curve and of the sidebar.
\* ------------------------------------------------------------------------
\* the samples the loop has appended so far
Samples == 1..Len(required_in)
\* the call is past the UA computation
Started == pc \in {"sweep", "table", "done"}
\* a geometry the data model allows
ValidGeometry == FGt(args.id_in, FZero) /\ FGt(args.wall_in, FZero)
PositiveFlow(j) == FGt(flows[j], FZero)
\* the source is colder than the inlet sample j requires
Heating(j) == FLt(args.T_source, required_in[j])
TargetNotBelowAmbient == FGe(args.T_out_target, args.T_amb)
\* the conductance of the line is not negative
NonNegativeUA == FGe(UA_total, FZero)
\* the exponent of sample j
ExponentOf(j) == Exponent(UA_total, MassFlowCp(flows[j]))
\* line 124 with exp(k) = 1: the target, through the two roundings of
\* T_amb + (T_out_target - T_amb)
TargetRoundTrip == FAdd(args.T_amb, FSub(args.T_out_target, args.T_amb))

HeaterIdle(j) == heater_duties[j].s = 0 /\ fuel_costs[j].s = 0
IdleInTable(j) == df[j].HeaterDuty.s = 0 /\ df[j].DailyFuelCost.s = 0
SourceWarm(j) == FGe(args.T_source, required_in[j])
\* C1 as stated: for every sample of a positive flow under a valid geometry,
\* heater duty and daily fuel cost are both zero exactly when the source is
\* at least as warm as the required inlet, in the values the loop appends
\* and in the cells of the returned table.
C1_HeaterIdleExactlyWhenSourceWarm ==
  \A j \in Samples :
    (ValidGeometry /\ PositiveFlow(j)) =>
      /\ HeaterIdle(j) <=> SourceWarm(j)
      /\ pc = "done" => (IdleInTable(j) <=> SourceWarm(j))
\* line 130: the heater's output of sample j when the branch is taken
HeaterOutput(j) ==
  FMul(MassFlowCp(flows[j]), FSub(required_in[j], args.T_source))
\* the least heater output, 2^-1050 Btu/hr, that the division by 1e6 cannot
\* take to zero, and the least duty, 0.01 MMBtu/hr, that the table cannot
\* round to zero
LeastOutput == Fin(1, <<1>>, -1050)
LeastShownDuty == Dec(1, 2)
\* C1 amended: for every sample of a positive flow under a valid geometry,
\* free fuel included, heater duty and daily fuel cost are both zero, in
\* the loop and in the table, whenever the source is not colder than the
\* required inlet (it is at least as warm, or the required inlet is not a
\* number); whenever the source is colder, the duty is the heater output
\* over 1e6, never negative, positive unless the output is below 2^-1050,
\* and its table cell is positive when the duty is 0.01 MMBtu/hr or more.
C1_HeaterIdleIffSourceWarm ==
  \A j \in Samples :
    (ValidGeometry /\ PositiveFlow(j)) =>
      /\ ~Heating(j) => HeaterIdle(j) /\ (pc = "done" => IdleInTable(j))
      /\ SourceWarm(j) => ~Heating(j)
      /\ Heating(j) =>
           /\ heater_duties[j] = HeaterDuty(HeaterOutput(j))
           /\ ~FLt(heater_duties[j], FZero)
           /\ FGe(HeaterOutput(j), LeastOutput) => heater_duties[j].s = 1
           /\ (pc = "done" /\ FGe(heater_duties[j], LeastShownDuty)) =>
                df[j].HeaterDuty.s = 1
\* a finished run with free fuel whose first sample needs the heater: the
\* duty is positive, in the loop and in the table, and the cost zero
C1_FreeFuelHeating ==
  /\ pc = "done" /\ ValidGeometry /\ args.fuel_price.s = 0
  /\ Len(df) >= 2 /\ PositiveFlow(1) /\ Heating(1)
  /\ heater_duties[1].s = 1 /\ fuel_costs[1].s = 0
  /\ df[1].HeaterDuty.s = 1 /\ df[1].DailyFuelCost.s = 0

\* C2 as stated: the heat loss of every sample is non-negative whatever the
\* order of ambient and target temperature.
C2_HeatLossNeverNegative ==
  \A j \in Samples :
    (ValidGeometry /\ PositiveFlow(j) /\ FGt(args.length_miles, FZero)) =>
      FGe(losses[j], FZero)
LossInTable(j) == pc = "done" => ~FLt(df[j].HeatLoss, FZero)
\* the exponential of sample j can overflow
ExpOverflow(j) == Inf(1) \in FExp(ExponentOf(j))
\* C2 amended: when the conductance is not negative, the target outlet
\* temperature is not below the ambient temperature and
\* T_amb + (T_out_target - T_amb), as the doubles round it, is not below the
\* target, the heat loss of a sample is never negative, in the loop and in
\* the returned table: it is zero or more, or not a number when the target
\* equals the ambient temperature and the exponential overflows.
C2_HeatLossNonNegativeAboveAmbient ==
  \A j \in Samples :
    (ValidGeometry /\ PositiveFlow(j) /\ FGt(args.length_miles, FZero)
       /\ NonNegativeUA /\ TargetNotBelowAmbient
       /\ FGe(TargetRoundTrip, args.T_out_target)) =>
      /\ \/ FGe(losses[j], FZero)
         \/ IsNaN(losses[j]) /\ args.T_out_target = args.T_amb /\ ExpOverflow(j)
      /\ LossInTable(j)
\* a finished run with a positive conductance and the target above ambient,
\* and two positive losses
C2_LossAboveAmbient ==
  /\ pc = "done" /\ ValidGeometry /\ FGt(args.T_out_target, args.T_amb)
  /\ FGt(UA_total, FZero) /\ FGe(TargetRoundTrip, args.T_out_target)
  /\ Len(df) >= 2 /\ PositiveFlow(1)
  /\ losses[1].s = 1 /\ losses[2].s = 1 /\ df[1].HeatLoss.s = 1

Ascending(j1, j2) == PositiveFlow(j1) /\ FLt(flows[j1], flows[j2])
ExpValues(j) == FExp(ExponentOf(j))
\* the values among ev that account for the required inlet of sample j
InletFactors(j, ev) ==
  { e \in ev : required_in[j] = Exchange(args.T_amb, args.T_out_target, e) }
\* the required inlet falls from j1 to j2 above ambient, and rises below
InletOrdered(j1, j2) ==
  /\ FGt(args.T_out_target, args.T_amb) => FGe(required_in[j1], required_in[j2])
  /\ FLt(args.T_out_target, args.T_amb) => FLe(required_in[j1], required_in[j2])
\* ev1, ev2: the values exp may return for the two samples.  The required
\* inlet is ordered unless the two exponentials lie between the same two
\* adjacent doubles (ev1 and ev2 then share two values) and the value exp
\* returned for the smaller flow is below the one it returned for the
\* larger flow
InletPair(j1, j2, ev1, ev2) ==
  \/ InletOrdered(j1, j2)
  \/ /\ Cardinality(ev1 \cap ev2) >= 2
     /\ \A e1 \in InletFactors(j1, ev1) : \A e2 \in InletFactors(j2, ev2) :
          ~FGe(e1, e2)
InvalidGeometry ==
  /\ args # NoArgs
  /\ \/ FLe(args.id_in, FZero)
     \/ ~FGt(OuterRadius(InnerRadius(args.id_in), args.wall_in),
             InnerRadius(args.id_in))
\* C4 as stated: with an inside diameter that is not positive, or an outer
\* radius not above the inner one, no conductance is computed, no sample is
\* swept and no table is returned.
C4_InvalidGeometryRefused ==
  InvalidGeometry =>
    /\ pc \in {"call", "error"}
    /\ UA_pm = Unset /\ required_in = <<>> /\ df = <<>>

\* the greatest integer not above x
FFloor(x) ==
  IF ~HasFraction(x) THEN x
  ELSE IntOf(x.s, ShiftRight(x.m, -x.e), x.s < 0 /\ LowBits(x.m, -x.e) # <<>>)
InRange(j) ==
  /\ flows[j] = FAdd(args.flow_min, FMul(FromInt(j - 1), args.flow_step))
  /\ FLe(flows[j], args.flow_max)
  /\ j > 1 => FLt(df[j - 1].Flow, df[j].Flow)
\* C5 as stated: for min > 0, step > 0 and max >= min the returned table has
\* one record for each of min + i * step, i = 0 .. floor((max - min) / step),
\* none above max, in strictly ascending flow order.
C5_InclusiveAscendingSamples ==
  (pc = "done" /\ FGt(args.flow_min, FZero) /\ FGt(args.flow_step, FZero)
     /\ FGe(args.flow_max, args.flow_min)) =>
    /\ Len(df) = ToInt(FFloor(FDiv(FSub(args.flow_max, args.flow_min),
                                   args.flow_step))) + 1
    /\ \A j \in 1..Len(df) : InRange(j)

\* C6 as stated: the outlet temperature of a sample is never below the
\* target: the target exactly when the heater is needed, and not below the
\* target when it is not.
C6_OutletNeverBelowTarget ==
  \A j \in Samples :
    /\ Heating(j) => outlet_vals[j] = args.T_out_target
    /\ ~FLt(outlet_vals[j], args.T_out_target)
\* C6 amended: the outlet temperature of a sample is the target exactly when
\* the heater is needed; when it is not, the outlet is the forward relation
\* from the source temperature, which is not below the forward relation,
\* with the same exponential, from the required inlet temperature itself
\* (the target up to rounding).
C6_OutletNotBelowRoundTrip ==
  \A j \in Samples :
    /\ Heating(j) => outlet_vals[j] = args.T_out_target
    /\ ~Heating(j) =>
         \E e \in FExp(FNeg(ExponentOf(j))) :
           /\ outlet_vals[j] = Exchange(args.T_amb, args.T_source, e)
           /\ ~FLt(outlet_vals[j], Exchange(args.T_amb, required_in[j], e))
\* a finished run with a source warm enough for both samples, whose outlet
\* stays above the target
C6_WarmSourceOutlet ==
  /\ pc = "done" /\ ValidGeometry /\ Len(df) >= 2
  /\ ~Heating(1) /\ ~Heating(2)
  /\ FGt(outlet_vals[1], args.T_out_target)
  /\ FLt(outlet_vals[1], args.T_source)

\* a step of the sweep or of the table leaves the two scalars alone
ScalarsKept ==
  (pc \in {"sweep", "table"}) => (UA_pm' = UA_pm /\ UA_total' = UA_total)
\* C7: UA_total is UA_pm times the line length from the UA computation on,
\* and no iteration of the sweep, nor the building of the table, changes
\* either of them.
C7_ConductanceFixedBeforeSweep ==
  /\ [](Started => UA_total = FMul(UA_pm, args.length_miles))
  /\ [][ScalarsKept]_vars
\* a finished sweep of two samples or more on a line that is not one mile long
C7_ScalarsAfterSweep ==
  /\ pc = "done" /\ Len(df) >= 2 /\ UA_pm.s = 1
  /\ args.length_miles # FOne
  /\ UA_total = FMul(UA_pm, args.length_miles) /\ UA_total # UA_pm

\* the factor line 109-110 applies
CorrectionFactor(cfg) == IF Get_add_5pct(cfg) THEN Dec(105, 2) ELSE FOne
SeriesReduction ==
  UA_per_mile_nested(args.nested_cfg.inner_nom_in, args.nested_cfg.outer_nom_in,
                     args.wall_in, args.k_wall, convective_h(args.wind_mph),
                     args.nested_cfg.k_eff_air)
\* C8: for a nested configuration UA_pm is the four-resistance series
\* reduction of UA_per_mile_nested (one of the values its three logarithms
\* allow) times the correction factor (1.05 unless add_5pct is switched
\* off), and UA_total is that value times the length.
C8_NestedCorrection ==
  (Started /\ ~args.nested_cfg.isNone) =>
    \E u \in SeriesReduction :
      /\ u.err = "none"
      /\ UA_pm = FMul(u.val, CorrectionFactor(args.nested_cfg))
      /\ UA_total = FMul(FMul(u.val, CorrectionFactor(args.nested_cfg)),
                         args.length_miles)
\* a finished run of a nested hose with the default allowance, whose UA_pm
\* is above every value of the series reduction
C8_NestedCorrected ==
  /\ pc = "done" /\ ~args.nested_cfg.isNone /\ Get_add_5pct(args.nested_cfg)
  /\ \A u \in SeriesReduction : FGt(UA_pm, u.val)

ZeroFlow(j) == MassFlowCp(flows[j]).s = 0
\* C9 as stated: a sample of zero mass flow gets the target itself as
\* required inlet and a zero heat loss, no fault ends the call, and the
\* sweep goes on to a table with one record for every sample.
C9_ZeroFlowInletIsTarget ==
  /\ \A j \in Samples :
       ZeroFlow(j) => (required_in[j] = args.T_out_target /\ losses[j].s = 0)
  /\ (flows # <<>> /\ ZeroFlow(1)) => pc # "error"
  /\ pc = "done" => (Len(df) = Len(flows) /\ Len(required_in) = Len(flows))
\* C9 amended: a sample of zero mass flow gets T_amb + (T_out_target - T_amb)
\* as the doubles round it for required inlet (the target up to rounding)
\* and a zero heat loss, no fault ends the call, and the sweep goes on to a
\* table with one record for every sample.
C9_ZeroFlowSample ==
  /\ \A j \in Samples :
       (ZeroFlow(j) /\ IsFinite(FSub(args.T_out_target, args.T_amb))) =>
         (required_in[j] = TargetRoundTrip /\ losses[j].s = 0)
  /\ (flows # <<>> /\ ZeroFlow(1)) => pc # "error"
  /\ pc = "done" => (Len(df) = Len(flows) /\ Len(required_in) = Len(flows))
\* a finished sweep whose first sample is the flow 0, with a required inlet
\* one rounding away from the target, and whose second needs a warmer inlet
C9_SweepFromZero ==
  /\ pc = "done" /\ Len(df) >= 2 /\ ZeroFlow(1)
  /\ required_in[1] = TargetRoundTrip
  /\ required_in[1] # args.T_out_target
  /\ losses[1].s = 0
  /\ FGt(required_in[2], args.T_out_target)

\* the outer diameter of the pipe that carries the water
CarrierOD ==
  IF sidebar.pipe_type = "Nested TPU Layflat"
  THEN args.nested_cfg.inner_nom_in ELSE sidebar.od_in
AboveOne(num, den) == FGt(FDiv(num, den), FOne)
NestedLogArguments(inner, outer, wall) ==
  /\ outer = FAdd(inner, FromInt(4))
  /\ FGt(FSub(outer, FMul(FTwo, wall)), inner)
  /\ AboveOne(r_ft(inner), r_ft(FSub(inner, FMul(FTwo, wall))))
  /\ AboveOne(r_ft(FSub(outer, FMul(FTwo, wall))), r_ft(inner))
  /\ AboveOne(r_ft(outer), r_ft(FSub(outer, FMul(FTwo, wall))))
\* C10: every selection of the sidebar resolves to a positive wall, a
\* positive inside diameter equal to the carrier's outer diameter less two
\* walls, and an outer radius above the inner one; a nested selection has
\* outer_nom = inner_nom + 4 and three logarithm arguments above 1; no
\* selection ends in an error.
C10_SidebarGeometryValid ==
  sidebar.pipe_type # "none" =>
    /\ FGt(args.wall_in, FZero) /\ FGt(args.id_in, FZero)
    /\ args.id_in = FSub(CarrierOD, FMul(FTwo, args.wall_in))
    /\ FGt(OuterRadius(InnerRadius(args.id_in), args.wall_in), InnerRadius(args.id_in))
    /\ ~args.nested_cfg.isNone =>
         NestedLogArguments(args.nested_cfg.inner_nom_in,
                            args.nested_cfg.outer_nom_in, args.wall_in)
    /\ pc # "error"
    /\ Started => UA_pm.s = 1
\* the thickest HDPE wall on the smallest pipe, swept to the end
C10_ThickestHdpe ==
  /\ pc = "done" /\ sidebar.pipe_type = "HDPE"
  /\ sidebar.nominal_choice = 4 /\ sidebar.dr = Dec(70, 1)
  /\ FGt(args.id_in, FZero) /\ FLt(args.id_in, sidebar.od_in)

====
